---- MODULE Spec2Model ----
(***************************************************************************)
(* Raw-item lowering of crates/ra_hir_def/src/nameres/raw.rs.              *)
(*                                                                         *)
(* RawItems::raw_items_query builds a RawItemsCollector and walks the      *)
(* items of one file.  The recursion process_module -> add_item ->         *)
(* add_module -> process_module is modelled with an explicit call stack:   *)
(* one frame per add_module call that is inside its process_module call.   *)
(* The syntax tree is read item by item, as `body.items()` yields it; the  *)
(* item read last is kept in `item`.                                       *)
(*                                                                         *)
(* Option<T> is a sequence of length 0 (None) or 1 (Some).                 *)
(* Arena indices are 0-based as in ra_arena: alloc returns the old length. *)
(***************************************************************************)
EXTENDS Integers, Sequences, FiniteSets, TLC

(***************************************************************************)
(* Bounds of the model.                                                    *)
(***************************************************************************)
\* number of syntax nodes (items, attributes, use-tree leaves, extern items)
MaxNodes == 4
\* nesting depth of inline modules
MaxDepth == 2
\* number of callback invocations of one use-tree expansion
MaxCallbacks == 2
\* number of items inside one extern block
MaxExternItems == 2

None == <<>>
Some(x) == <<x>>
IsSome(o) == o # <<>>
Unwrap(o) == o[1]

SeqsUpTo(S, n) == UNION {[1..k -> S] : k \in 0..n}

(***************************************************************************)
(* Text.  Identifier text is a sequence of characters, so that             *)
(* str::contains is a real substring test.                                 *)
(***************************************************************************)
LOCAL_INNER_MACROS ==
    <<"l","o","c","a","l","_","i","n","n","e","r","_","m","a","c","r","o","s">>

\* str::contains(pat)
Contains(text, pat) ==
    \E i \in 0..(Len(text) - Len(pat)) : SubSeq(text, i + 1, i + Len(pat)) = pat

(***************************************************************************)
(* Oracles consumed by the collector.                                      *)
(***************************************************************************)
\* AsName::as_name: syntax name -> hir Name
AsName(n) == [text |-> n]

\* RawVisibility::from_ast_with_hygiene(item.visibility(), hygiene)
FromAstWithHygiene(vis) == IF IsSome(vis) THEN "Public" ELSE "Private"

\* RawItemsCollector::parse_attrs = Attrs::new(item, hygiene)
ParseAttrs(it) == [entries |-> it.attrs]

\* Attrs::by_key(key): the attributes whose path is `key`
ByKey(attrs, key) == SelectSeq(attrs.entries, LAMBDA a : a.key = key)

\* AttrQuery::exists
Exists(query) == Len(query) > 0

\* AttrQuery::tt_values: the token-tree inputs of the selected attributes
TtValues(query) ==
    LET withTt == SelectSeq(query, LAMBDA a : IsSome(a.input))
    IN  [i \in 1..Len(withTt) |-> Unwrap(withTt[i].input)]

\* AttrsOwner::has_atom_attr(atom): an attribute `#[atom]` without input
HasAtomAttr(it, atom) ==
    \E i \in 1..Len(it.attrs) : it.attrs[i].key = atom /\ it.attrs[i].input = None

\* ModPath::from_src(path, hygiene)
ModPathFromSrc(p) == IF p.lowers THEN Some([segments |-> p.text]) ELSE None

\* ModPath::from_name_ref(name_ref)
ModPathFromNameRef(n) == [segments |-> <<n>>]

(***************************************************************************)
(* Syntax items the parser can hand to the collector.                      *)
(***************************************************************************)
NoVis == None
PubVis == Some("pub")

Atom(k) == [key |-> k, input |-> None]
WithTt(k, tts) == [key |-> k, input |-> Some([token_trees |-> tts])]
Ident(t) == [tt |-> "Ident", text |-> t]
Literal(t) == [tt |-> "Literal", text |-> t]
SubtreeOf(tts) == [tt |-> "Subtree", token_trees |-> tts]

Module(n, s, l, v) ==
    [kind |-> "Module", name |-> n, semi |-> s, item_list |-> l, vis |-> v,
     attrs |-> <<>>]
ModDef == Module(Some("m"), FALSE, TRUE, NoVis)

Def(k, n, v) == [kind |-> k, name |-> n, vis |-> v, attrs |-> <<>>]
Struct(sk, n, v) ==
    [kind |-> "StructDef", struct_kind |-> sk, name |-> n, vis |-> v, attrs |-> <<>>]
FnItem == Def("FnDef", Some("f"), PubVis)
ImplItem == [kind |-> "ImplDef", vis |-> NoVis, attrs |-> <<Atom("cfg")>>]

Leaf(p, a, g) == [path |-> [segments |-> p], alias |-> a, is_glob |-> g]
\* use a::{b, c as d, e::*}
UseLeaves ==
    { Leaf(<<"a", "b">>, None, FALSE),
      Leaf(<<"a", "c">>, Some(<<"Alias", AsName("d")>>), FALSE),
      Leaf(<<"a", "e">>, None, TRUE) }
Use(v, at, ls) == [kind |-> "UseItem", vis |-> v, attrs |-> at, expansion |-> ls]

ExternCrate(n, al, at, v) ==
    [kind |-> "ExternCrateItem", name_ref |-> n, alias |-> al, attrs |-> at, vis |-> v]
\* alias syntax: absent, `as _`, `as d`
AliasSyntax == {None, Some(None), Some(Some("d"))}

Macro(p, n, at) == [kind |-> "MacroCall", path |-> p, name |-> n, attrs |-> at]
GoodPath == Some([text |-> <<"foo">>, lowers |-> TRUE])
BadPath == Some([text |-> <<"$crate">>, lowers |-> FALSE])
X_LOCAL_INNER_MACROS_Y == <<"x", "_">> \o LOCAL_INNER_MACROS \o <<"_", "y">>
LOCAL_INNER == SubSeq(LOCAL_INNER_MACROS, 1, 11)
MacroAttrs ==
    { <<>>,
      <<Atom("macro_export")>>,
      <<WithTt("macro_export", <<Ident(LOCAL_INNER_MACROS)>>)>>,
      <<WithTt("macro_export", <<Ident(LOCAL_INNER), Ident(X_LOCAL_INNER_MACROS_Y)>>)>>,
      <<WithTt("macro_export", <<Literal(LOCAL_INNER_MACROS)>>)>>,
      <<WithTt("macro_export", <<Ident(LOCAL_INNER)>>)>>,
      <<WithTt("macro_export", <<SubtreeOf(<<Ident(LOCAL_INNER_MACROS)>>)>>)>>,
      <<WithTt("cfg", <<Ident(LOCAL_INNER_MACROS)>>)>>,
      <<Atom("rustc_builtin_macro")>>,
      <<Atom("rustc_builtin_macro"), WithTt("macro_export", <<Ident(LOCAL_INNER_MACROS)>>)>>,
      <<Atom("macro_export"), WithTt("macro_export", <<Ident(LOCAL_INNER_MACROS)>>)>> }

ExternItems ==
    { Def("FnDef", Some("f"), PubVis), Def("FnDef", None, NoVis),
      Def("StaticDef", Some("s"), NoVis), Def("StaticDef", None, PubVis) }
ExternBlock(l) == [kind |-> "ExternBlock", extern_item_list |-> l, attrs |-> <<>>]

\* The files lowered in one run are drawn from one of these families.
Families ==
    {"modules", "types", "values", "uses", "extern_crates", "macros",
     "extern_blocks", "mixed"}

ModulesFamily ==
    {Module(n, s, l, PubVis) : n \in {None, Some("m")}, s \in BOOLEAN, l \in BOOLEAN}
    \cup {ModDef, Module(Some("d"), TRUE, FALSE, NoVis), FnItem}

TypesFamily ==
    {Struct(sk, Some("S"), PubVis) : sk \in {"Record", "Tuple", "Unit"}}
    \cup {Struct("Record", None, PubVis), Def("UnionDef", Some("U"), NoVis),
          Def("EnumDef", Some("E"), PubVis), Def("EnumDef", None, NoVis), ModDef}

ValuesFamily ==
    {Def(k, Some("v"), NoVis) :
         k \in {"FnDef", "TraitDef", "TypeAliasDef", "ConstDef", "StaticDef"}}
    \cup {FnItem, Def("FnDef", None, PubVis), Def("ConstDef", None, NoVis),
          ImplItem, ModDef}

UsesFamily ==
    {Use(v, at, ls) : v \in {NoVis, PubVis},
                      at \in {<<>>, <<Atom("prelude_import")>>},
                      ls \in SeqsUpTo(UseLeaves, MaxCallbacks)}
    \cup {ModDef}

ExternCratesFamily ==
    {ExternCrate(Some("foo"), al, at, NoVis) :
         al \in AliasSyntax, at \in {<<>>, <<Atom("macro_use")>>}}
    \cup {ExternCrate(Some("bar"), None, <<>>, PubVis),
          ExternCrate(None, Some(Some("d")), <<Atom("macro_use")>>, PubVis),
          \* #[macro_use(m)] extern crate foo;
          ExternCrate(Some("foo"), None, <<WithTt("macro_use", <<Ident(<<"m">>)>>)>>, NoVis),
          ModDef}

MacrosFamily ==
    {Macro(GoodPath, None, at) : at \in MacroAttrs}
    \cup {Macro(GoodPath, Some("mac"), <<>>),
          Macro(None, None, <<Atom("macro_export")>>),
          Macro(BadPath, None, <<>>), ModDef}

ExternBlocksFamily ==
    {ExternBlock(Some(l)) : l \in SeqsUpTo(ExternItems, MaxExternItems)}
    \cup {ExternBlock(None), ModDef, FnItem}

MixedFamily ==
    {ModDef, Module(Some("d"), TRUE, FALSE, PubVis),
     Module(Some("broken"), FALSE, FALSE, NoVis),
     FnItem, Struct("Unit", None, NoVis), ImplItem,
     Use(PubVis, <<>>, <<Leaf(<<"a", "b">>, None, FALSE),
                         Leaf(<<"a", "e">>, None, TRUE)>>),
     ExternCrate(Some("foo"), Some(None), <<>>, NoVis),
     Macro(GoodPath, None, <<>>),
     ExternBlock(Some(<<Def("FnDef", Some("f"), PubVis),
                        Def("StaticDef", Some("s"), NoVis)>>))}

Items(f) ==
    CASE f = "modules" -> ModulesFamily
      [] f = "types" -> TypesFamily
      [] f = "values" -> ValuesFamily
      [] f = "uses" -> UsesFamily
      [] f = "extern_crates" -> ExternCratesFamily
      [] f = "macros" -> MacrosFamily
      [] f = "extern_blocks" -> ExternBlocksFamily
      [] f = "mixed" -> MixedFamily

\* Number of syntax nodes of an item: the item, its attributes, and the
\* use-tree leaves or extern items below it.
Cost(it) ==
    1 + Len(it.attrs)
      + (IF it.kind = "UseItem" THEN Len(it.expansion) ELSE 0)
      + (IF it.kind = "ExternBlock" /\ IsSome(it.extern_item_list)
           THEN Len(Unwrap(it.extern_item_list)) ELSE 0)

DefSyntaxKinds ==
    {"StructDef", "UnionDef", "EnumDef", "FnDef", "TraitDef", "TypeAliasDef",
     "ConstDef", "StaticDef"}

(***************************************************************************)
(* State.                                                                  *)
(***************************************************************************)
VARIABLES
    pc,         \* "query" | "collect" | "done" | "aborted"
    family,     \* the family of files the syntax items are drawn from
    nodes,      \* syntax nodes read so far; the next item's position
    item,       \* the item `body.items()` yielded last
    stack,      \* add_module calls whose process_module call is running
    raw_items,  \* collector.raw_items
    panicked    \* unreachable!() was executed

vars == <<pc, family, nodes, item, stack, raw_items, panicked>>

\* db.parse_or_expand(file_id): no node, or the kind of the root node
Roots == {None, Some("SOURCE_FILE"), Some("MACRO_ITEMS"), Some("BLOCK_EXPR")}

\* RawItems::default()
RawItemsDefault ==
    [modules |-> <<>>, imports |-> <<>>, defs |-> <<>>, macros |-> <<>>,
     impls |-> <<>>, items |-> <<>>]

NoItem == [kind |-> "NoItem", attrs |-> <<>>]

\* Arena::alloc
Alloc(arena, data) == [arena |-> Append(arena, data), idx |-> Len(arena)]

\* Index<Idx<_>>: arena[idx]
At(arena, idx) == arena[idx + 1]

\* RawItem { attrs, kind }.  `node` is a history field: the position of the
\* syntax item of the scope's body whose lowering pushed the entry.
RawItem(attrs, kind, node) == [attrs |-> attrs, kind |-> kind, node |-> node]

\* The collector while it runs: its raw_items and whether it panicked.
Running == [raw_items |-> raw_items, panicked |-> panicked]

\* push_item inserting at the front of the list instead of pushing at its end
PushItemFront(c, current_module, attrs, kind, node) ==
    IF current_module = None
      THEN [c EXCEPT !.raw_items.items = <<RawItem(attrs, kind, node)>> \o @]
      ELSE IF At(c.raw_items.modules, Unwrap(current_module)).variant = "Definition"
             THEN [c EXCEPT !.raw_items.modules[Unwrap(current_module) + 1].items =
                                <<RawItem(attrs, kind, node)>> \o @]
             ELSE [c EXCEPT !.panicked = TRUE]

\* RawItemsCollector::push_item
PushItem(c, current_module, attrs, kind, node) ==
    IF current_module = None
      THEN [c EXCEPT !.raw_items.items = Append(@, RawItem(attrs, kind, node))]
      ELSE IF At(c.raw_items.modules, Unwrap(current_module)).variant = "Definition"
             THEN [c EXCEPT !.raw_items.modules[Unwrap(current_module) + 1].items =
                                Append(@, RawItem(attrs, kind, node))]
             ELSE [c EXCEPT !.panicked = TRUE]

\* push_import tagging the import as RawItemKind::Def
PushImportAsDef(c, current_module, attrs, data, node) ==
    LET a == Alloc(c.raw_items.imports, data)
    IN  PushItem([c EXCEPT !.raw_items.imports = a.arena], current_module, attrs,
                 <<"Def", a.idx>>, node)

\* RawItemsCollector::push_import
PushImport(c, current_module, attrs, data, node) ==
    LET a == Alloc(c.raw_items.imports, data)
    IN  PushItem([c EXCEPT !.raw_items.imports = a.arena], current_module, attrs,
                 <<"Import", a.idx>>, node)

\* The argument process_module passes to add_item for the body being walked.
CurrentModule ==
    IF stack = <<>> THEN None ELSE Some(stack[Len(stack)].item)

\* `for item in body.items()` yields `it` next.
Reads(it) ==
    /\ pc = "collect"
    /\ it \in Items(family)
    /\ nodes + Cost(it) <= MaxNodes
    /\ (it.kind = "Module" /\ IsSome(it.name) /\ ~it.semi /\ it.item_list)
         => Len(stack) < MaxDepth

\* The collector continues with `c` after having read `it`.
Continue(it, c) ==
    /\ raw_items' = c.raw_items
    /\ panicked' = c.panicked
    /\ pc' = IF c.panicked THEN "aborted" ELSE pc
    /\ item' = it
    /\ nodes' = nodes + Cost(it)
    /\ UNCHANGED family

(***************************************************************************)
(* raw_items_query                                                         *)
(***************************************************************************)
\* ast::SourceFile::cast / ast::MacroItems::cast succeed
IsItemOwner(node) == node \in {"SOURCE_FILE", "MACRO_ITEMS"}

Start(root) ==
    /\ pc = "query"
    /\ pc' = IF IsSome(root) /\ IsItemOwner(Unwrap(root)) THEN "collect" ELSE "done"
    /\ UNCHANGED <<family, nodes, item, stack, raw_items, panicked>>

\* the top-level process_module returns; Arc::new(raw_items)
Finish ==
    /\ pc = "collect"
    /\ stack = <<>>
    /\ pc' = "done"
    /\ UNCHANGED <<family, nodes, item, stack, raw_items, panicked>>

(***************************************************************************)
(* add_item: the definition arms                                           *)
(***************************************************************************)
\* the `match item` arms of add_item that build a DefKind
DefKindOf(it, id) ==
    CASE it.kind = "StructDef" -> <<"Struct", id, it.struct_kind>>
      [] it.kind = "UnionDef" -> <<"Union", id>>
      [] it.kind = "EnumDef" -> <<"Enum", id>>
      [] it.kind = "FnDef" -> <<"Function", id>>
      [] it.kind = "TraitDef" -> <<"Trait", id>>
      [] it.kind = "TypeAliasDef" -> <<"TypeAlias", id>>
      [] it.kind = "ConstDef" -> <<"Const", id>>
      [] it.kind = "StaticDef" -> <<"Static", id>>

\* `if let Some(name) = name { defs.alloc(..); push_item(..) }`
PushDef(c, current_module, it, id, node) ==
    IF IsSome(it.name)
      THEN LET a == Alloc(c.raw_items.defs,
                          [name |-> AsName(Unwrap(it.name)),
                           kind |-> DefKindOf(it, id),
                           visibility |-> FromAstWithHygiene(it.vis)])
           IN  PushItem([c EXCEPT !.raw_items.defs = a.arena], current_module,
                        ParseAttrs(it), <<"Def", a.idx>>, node)
      ELSE c

AddDef(it) ==
    /\ it.kind \in DefSyntaxKinds
    /\ Reads(it)
    /\ Continue(it, PushDef(Running, CurrentModule, it, nodes, nodes))
    /\ UNCHANGED stack

(***************************************************************************)
(* add_impl                                                                *)
(***************************************************************************)
AddImpl(it) ==
    /\ it.kind = "ImplDef"
    /\ Reads(it)
    /\ LET a == Alloc(raw_items.impls, [ast_id |-> nodes])
       IN  Continue(it, PushItem([Running EXCEPT !.raw_items.impls = a.arena],
                                 CurrentModule, ParseAttrs(it), <<"Impl", a.idx>>, nodes))
    /\ UNCHANGED stack

(***************************************************************************)
(* add_module                                                              *)
(***************************************************************************)
\* add_module taking a module without item list for a declaration
ModuleDispatchNoBroken(module) ==
    IF module.name = None THEN "unnamed"
    ELSE IF module.semi THEN "declaration"
    ELSE IF module.item_list THEN "definition"
    ELSE "declaration"

\* add_module testing the item list before the semicolon
ModuleDispatchListFirst(module) ==
    IF module.name = None THEN "unnamed"
    ELSE IF module.item_list THEN "definition"
    ELSE IF module.semi THEN "declaration"
    ELSE "broken"

\* The three exits of add_module, in the order the code tests them.
ModuleDispatch(module) ==
    IF module.name = None THEN "unnamed"
    ELSE IF module.semi THEN "declaration"
    ELSE IF module.item_list THEN "definition"
    ELSE "broken"

\* ModuleData::Declaration { name, visibility, ast_id }
Declaration(module, id) ==
    [variant |-> "Declaration", name |-> AsName(Unwrap(module.name)),
     visibility |-> FromAstWithHygiene(module.vis), ast_id |-> id]

\* add_module allocating a Declaration in its item-list branch
DefinitionAsDeclaration(module, id) ==
    [variant |-> "Declaration", name |-> AsName(Unwrap(module.name)),
     visibility |-> FromAstWithHygiene(module.vis), ast_id |-> id]

\* ModuleData::Definition { name, visibility, ast_id, items: Vec::new() }
Definition(module, id) ==
    [variant |-> "Definition", name |-> AsName(Unwrap(module.name)),
     visibility |-> FromAstWithHygiene(module.vis), ast_id |-> id, items |-> <<>>]

\* add_module up to its return, or up to its call of process_module
AddModule(module) ==
    /\ module.kind = "Module"
    /\ Reads(module)
    /\ LET exit == ModuleDispatch(module)
           decl == Alloc(raw_items.modules, Declaration(module, nodes))
           defn == Alloc(raw_items.modules, Definition(module, nodes))
       IN  CASE exit = "declaration" ->
                  /\ Continue(module,
                              PushItem([Running EXCEPT !.raw_items.modules = decl.arena],
                                       CurrentModule, ParseAttrs(module),
                                       <<"Module", decl.idx>>, nodes))
                  /\ UNCHANGED stack
             [] exit = "definition" ->
                  /\ Continue(module, [Running EXCEPT !.raw_items.modules = defn.arena])
                  /\ stack' = Append(stack, [current_module |-> CurrentModule,
                                             item |-> defn.idx,
                                             attrs |-> ParseAttrs(module),
                                             node |-> nodes])
             [] OTHER ->
                  /\ Continue(module, Running)
                  /\ UNCHANGED stack

\* add_module pushing the module's tag with Some(item) as the scope
EnclosingScopeSelf(frame) == Some(frame.item)

\* The scope push_item is given after process_module(Some(item), ..) returned.
EnclosingScope(frame) == frame.current_module

\* process_module(Some(item), item_list) returns into add_module, which
\* pushes the module's own tag and returns.
EndModule ==
    /\ pc = "collect"
    /\ stack # <<>>
    /\ LET frame == stack[Len(stack)]
           c == PushItem(Running, EnclosingScope(frame), frame.attrs,
                         <<"Module", frame.item>>, frame.node)
       IN  /\ raw_items' = c.raw_items
           /\ panicked' = c.panicked
           /\ pc' = IF c.panicked THEN "aborted" ELSE pc
    /\ stack' = SubSeq(stack, 1, Len(stack) - 1)
    /\ UNCHANGED <<family, nodes, item>>

(***************************************************************************)
(* add_use_item                                                            *)
(***************************************************************************)
\* the buffer drained from its end
UseImportDataReversed(use_item) ==
    [k \in 1..Len(use_item.expansion) |->
        LET leaf == use_item.expansion[Len(use_item.expansion) + 1 - k]
        IN  [path |-> leaf.path,
             alias |-> leaf.alias,
             is_glob |-> leaf.is_glob,
             is_prelude |-> HasAtomAttr(use_item, "prelude_import"),
             is_extern_crate |-> FALSE,
             is_macro_use |-> FALSE,
             visibility |-> FromAstWithHygiene(use_item.vis)]]

\* The buffer the expand_use_item callback fills, one ImportData per call.
UseImportData(use_item) ==
    [k \in 1..Len(use_item.expansion) |->
        [path |-> use_item.expansion[k].path,
         alias |-> use_item.expansion[k].alias,
         is_glob |-> use_item.expansion[k].is_glob,
         is_prelude |-> HasAtomAttr(use_item, "prelude_import"),
         is_extern_crate |-> FALSE,
         is_macro_use |-> FALSE,
         visibility |-> FromAstWithHygiene(use_item.vis)]]

\* `for import_data in buf { self.push_import(current_module, attrs.clone(), import_data) }`
RECURSIVE PushImports(_, _, _, _, _)
PushImports(c, current_module, attrs, buf, node) ==
    IF buf = <<>> THEN c
    ELSE PushImports(PushImport(c, current_module, attrs, Head(buf), node),
                     current_module, attrs, Tail(buf), node)

AddUseItem(use_item) ==
    /\ use_item.kind = "UseItem"
    /\ Reads(use_item)
    /\ Continue(use_item, PushImports(Running, CurrentModule, ParseAttrs(use_item),
                                      UseImportData(use_item), nodes))
    /\ UNCHANGED stack

(***************************************************************************)
(* add_extern_crate_item                                                   *)
(***************************************************************************)
\* the alias lowered with and_then: `as _` loses its alias
ExternCrateAliasAndThen(alias) ==
    IF alias = None THEN None
    ELSE IF Unwrap(alias) = None THEN None
    ELSE Some(<<"Alias", AsName(Unwrap(Unwrap(alias)))>>)

\* extern_crate.alias().map(|a| a.name().map(as_name)
\*     .map_or(ImportAlias::Underscore, ImportAlias::Alias))
ExternCrateAlias(alias) ==
    IF alias = None THEN None
    ELSE IF Unwrap(alias) = None THEN Some(<<"Underscore">>)
    ELSE Some(<<"Alias", AsName(Unwrap(Unwrap(alias)))>>)

\* is_macro_use taken from the presence of the key, arguments or not
ExternCrateImportDataAnyKey(extern_crate) ==
    [path |-> ModPathFromNameRef(Unwrap(extern_crate.name_ref)),
     alias |-> ExternCrateAlias(extern_crate.alias),
     is_glob |-> FALSE,
     is_prelude |-> FALSE,
     is_extern_crate |-> TRUE,
     is_macro_use |-> Exists(ByKey(ParseAttrs(extern_crate), "macro_use")),
     visibility |-> FromAstWithHygiene(extern_crate.vis)]

ExternCrateImportData(extern_crate) ==
    [path |-> ModPathFromNameRef(Unwrap(extern_crate.name_ref)),
     alias |-> ExternCrateAlias(extern_crate.alias),
     is_glob |-> FALSE,
     is_prelude |-> FALSE,
     is_extern_crate |-> TRUE,
     is_macro_use |-> HasAtomAttr(extern_crate, "macro_use"),
     visibility |-> FromAstWithHygiene(extern_crate.vis)]

AddExternCrateItem(extern_crate) ==
    /\ extern_crate.kind = "ExternCrateItem"
    /\ Reads(extern_crate)
    /\ Continue(extern_crate,
                IF IsSome(extern_crate.name_ref)
                  THEN PushImport(Running, CurrentModule, ParseAttrs(extern_crate),
                                  ExternCrateImportData(extern_crate), nodes)
                  ELSE Running)
    /\ UNCHANGED stack

(***************************************************************************)
(* add_macro                                                               *)
(***************************************************************************)
\* `match it { Leaf(Ident(ident)) => ident.text.contains(..), _ => false }`
IsLocalInnerIdent(token_tree) ==
    token_tree.tt = "Ident" /\ Contains(token_tree.text, LOCAL_INNER_MACROS)

\* export_attr.tt_values().map(|it| &it.token_trees).flatten().any(..)
AnyLocalInner(export_attr) ==
    \E i \in 1..Len(TtValues(export_attr)) :
        \E j \in 1..Len(TtValues(export_attr)[i].token_trees) :
            IsLocalInnerIdent(TtValues(export_attr)[i].token_trees[j])

\* local_inner looked up in the arguments of every attribute, export or not
MacroFlagsUngated(attrs) ==
    [export |-> Exists(ByKey(attrs, "macro_export")),
     local_inner |-> AnyLocalInner(attrs.entries),
     builtin |-> Exists(ByKey(attrs, "rustc_builtin_macro"))]

\* the export, local_inner and builtin fields of the MacroData
MacroFlags(attrs) ==
    LET export_attr == ByKey(attrs, "macro_export")
        export == Exists(export_attr)
    IN  [export |-> export,
         local_inner |-> IF export THEN AnyLocalInner(export_attr) ELSE FALSE,
         builtin |-> Exists(ByKey(attrs, "rustc_builtin_macro"))]

\* m.path().and_then(|path| ModPath::from_src(path, &self.hygiene))
MacroPath(m) == IF m.path = None THEN None ELSE ModPathFromSrc(Unwrap(m.path))

AddMacro(m) ==
    /\ m.kind = "MacroCall"
    /\ Reads(m)
    /\ LET attrs == ParseAttrs(m)
           flags == MacroFlags(attrs)
           a == Alloc(raw_items.macros,
                      [ast_id |-> nodes,
                       path |-> Unwrap(MacroPath(m)),
                       name |-> IF IsSome(m.name) THEN Some(AsName(Unwrap(m.name))) ELSE None,
                       export |-> flags.export,
                       local_inner |-> flags.local_inner,
                       builtin |-> flags.builtin])
       IN  Continue(m, IF IsSome(MacroPath(m))
                         THEN PushItem([Running EXCEPT !.raw_items.macros = a.arena],
                                       CurrentModule, attrs, <<"Macro", a.idx>>, nodes)
                         ELSE Running)
    /\ UNCHANGED stack

(***************************************************************************)
(* add_extern_block                                                        *)
(***************************************************************************)
\* the loop left at the first extern item without a name
RECURSIVE ExternItemsLoopBreaks(_, _, _, _, _)
ExternItemsLoopBreaks(c, current_module, extern_items, k, block) ==
    IF k > Len(extern_items) \/ extern_items[k].name = None THEN c
    ELSE ExternItemsLoopBreaks(PushDef(c, current_module, extern_items[k], block + k, block),
                               current_module, extern_items, k + 1, block)

\* `for item in items.extern_items() { .. }`; the k-th extern item is the
\* syntax node at position block + k.
RECURSIVE ExternItemsLoop(_, _, _, _, _)
ExternItemsLoop(c, current_module, extern_items, k, block) ==
    IF k > Len(extern_items) THEN c
    ELSE ExternItemsLoop(PushDef(c, current_module, extern_items[k], block + k, block),
                         current_module, extern_items, k + 1, block)

AddExternBlock(block) ==
    /\ block.kind = "ExternBlock"
    /\ Reads(block)
    /\ Continue(block,
                IF IsSome(block.extern_item_list)
                  THEN ExternItemsLoop(Running, CurrentModule,
                                       Unwrap(block.extern_item_list), 1, nodes)
                  ELSE Running)
    /\ UNCHANGED stack

(***************************************************************************)
(* Specification                                                           *)
(***************************************************************************)
Init ==
    /\ pc = "query"
    /\ family \in Families
    /\ nodes = 0
    /\ item = NoItem
    /\ stack = <<>>
    /\ raw_items = RawItemsDefault
    /\ panicked = FALSE

Next ==
    \/ \E root \in Roots : Start(root)
    \/ \E it \in Items(family) : AddModule(it)
    \/ EndModule
    \/ \E it \in Items(family) : AddUseItem(it)
    \/ \E it \in Items(family) : AddExternCrateItem(it)
    \/ \E it \in Items(family) : AddImpl(it)
    \/ \E it \in Items(family) : AddDef(it)
    \/ \E it \in Items(family) : AddMacro(it)
    \/ \E it \in Items(family) : AddExternBlock(it)
    \/ Finish

Spec == Init /\ [][Next]_vars

\* The collector takes its next step as long as it has one.
FairSpec == Spec /\ WF_vars(Next)

(***************************************************************************)
(* Vocabulary of the properties                                            *)
(***************************************************************************)
Last(seq) == seq[Len(seq)]
IsPrefix(a, b) == Len(a) <= Len(b) /\ SubSeq(b, 1, Len(a)) = a

\* The item list of a scope: the top level (None) or a module Definition.
ScopeItems(ri, scope) ==
    IF scope = None THEN ri.items ELSE At(ri.modules, Unwrap(scope)).items

\* The scopes of a raw item set.
Scopes(ri) ==
    {None} \cup {Some(i) : i \in {j \in 0..(Len(ri.modules) - 1) :
                                      At(ri.modules, j).variant = "Definition"}}

\* The modules whose bodies are being traversed.
OpenModules(stk) == {stk[k].item : k \in 1..Len(stk)}

\* A step in which the collector read an item of syntax kind k.
JustRead(k) == nodes' # nodes /\ item'.kind = k

\* A step that changes at most the store `store` and the item list of
\* `scope`, and does not move the collector to another scope.
OnlyTouches(scope, store) ==
    /\ Len(raw_items'.modules) = Len(raw_items.modules)
    /\ \A i \in 0..(Len(raw_items.modules) - 1) :
          IF Some(i) = scope
            THEN [At(raw_items'.modules, i) EXCEPT !.items = <<>>]
                   = [At(raw_items.modules, i) EXCEPT !.items = <<>>]
            ELSE At(raw_items'.modules, i) = At(raw_items.modules, i)
    /\ scope # None => raw_items'.items = raw_items.items
    /\ \A f \in {"imports", "defs", "macros", "impls"} \ {store} :
          raw_items'[f] = raw_items[f]
    /\ stack' = stack
    /\ ~panicked'

(***************************************************************************)
(* C1  Order preservation.  In every scope's item list the tags are in     *)
(* the source order of the items that produced them: a tag of an earlier   *)
(* item precedes every tag of a later item, and the tags one item produced *)
(* (the imports of one use statement, the definitions of one extern block) *)
(* are contiguous and in the order they were allocated.                    *)
(***************************************************************************)
OrderPreserved ==
    \A scope \in Scopes(raw_items) :
        LET list == ScopeItems(raw_items, scope)
        IN  \A i, j \in 1..Len(list) :
                i < j =>
                    \/ list[i].node < list[j].node
                    \/ /\ list[i].node = list[j].node
                       /\ list[i].kind[1] = list[j].kind[1]
                       /\ list[i].kind[2] < list[j].kind[2]

\* a module tag, pushed after the module's body, followed by the two imports
\* of one use statement
OrderPreservedWitness ==
    /\ Len(raw_items.items) = 3
    /\ raw_items.items[1].kind[1] = "Module"
    /\ raw_items.items[2].kind[1] = "Import"
    /\ raw_items.items[3].kind[1] = "Import"
    /\ raw_items.items[2].node = raw_items.items[3].node

(***************************************************************************)
(* C2  Malformed-module silence.  Reading a module without a name, or with *)
(* a name but neither semicolon nor item list, allocates nothing, appends  *)
(* no tag to any list and leaves the collector in the scope it was in, so  *)
(* the siblings are collected as if the module were absent.                *)
(***************************************************************************)
IsMalformedModule(it) ==
    it.kind = "Module" /\ (it.name = None \/ (~it.semi /\ ~it.item_list))

MalformedModuleSilent ==
    [][(JustRead("Module") /\ IsMalformedModule(item'))
          => /\ raw_items' = raw_items
             /\ stack' = stack
             /\ pc' = "collect"
             /\ ~panicked']_vars

\* f, a malformed module, f: both siblings are in the list, nothing else is
MalformedModuleSilentWitness ==
    /\ family = "modules"
    /\ nodes = 3
    /\ raw_items.modules = <<>>
    /\ Len(raw_items.items) = 2
    /\ raw_items.items[1].node = 0
    /\ raw_items.items[2].node = 2
    /\ raw_items.items[2].kind = <<"Def", 1>>

(***************************************************************************)
(* C3  Macro flag derivation.  A macro call with a path that lowers gets   *)
(* one record with export = (key macro_export present), local_inner =      *)
(* (export and some Ident leaf among the token trees of a macro_export     *)
(* argument contains "local_inner_macros"), builtin = (key                 *)
(* rustc_builtin_macro present).                                           *)
(***************************************************************************)
HasKey(it, key) == \E i \in 1..Len(it.attrs) : it.attrs[i].key = key

HasLocalInnerToken(it) ==
    \E i \in 1..Len(it.attrs) :
        /\ it.attrs[i].key = "macro_export"
        /\ IsSome(it.attrs[i].input)
        /\ \E j \in 1..Len(Unwrap(it.attrs[i].input).token_trees) :
              LET t == Unwrap(it.attrs[i].input).token_trees[j]
              IN  t.tt = "Ident" /\ Contains(t.text, LOCAL_INNER_MACROS)

MacroFlagsDerived ==
    [][(JustRead("MacroCall") /\ IsSome(item'.path) /\ Unwrap(item'.path).lowers)
          => /\ Len(raw_items'.macros) = Len(raw_items.macros) + 1
             /\ SubSeq(raw_items'.macros, 1, Len(raw_items.macros)) = raw_items.macros
             /\ LET m == Last(raw_items'.macros)
                IN  /\ m.export = HasKey(item', "macro_export")
                    /\ m.local_inner = (m.export /\ HasLocalInnerToken(item'))
                    /\ (~m.export => ~m.local_inner)
                    /\ m.builtin = HasKey(item', "rustc_builtin_macro")]_vars

\* #[cfg(local_inner_macros)] foo!(): the token is there, the export key is not
MacroFlagsDerivedWitness ==
    /\ item.kind = "MacroCall"
    /\ item.attrs = <<WithTt("cfg", <<Ident(LOCAL_INNER_MACROS)>>)>>
    /\ Len(raw_items.macros) = 2
    /\ raw_items.macros[1].export /\ raw_items.macros[1].local_inner
    /\ ~raw_items.macros[2].export /\ ~raw_items.macros[2].local_inner

(***************************************************************************)
(* C4  Use-statement flattening.  A use statement whose expansion calls    *)
(* back n times allocates n import records and appends n import tags to    *)
(* the current scope, in callback order; record k carries callback k's     *)
(* path, alias and is_glob and the statement's visibility and prelude      *)
(* flag, is_extern_crate and is_macro_use are false; nothing else changes. *)
(***************************************************************************)
UseFlattened ==
    [][JustRead("UseItem")
          => LET n == Len(item'.expansion)
                 old == Len(raw_items.imports)
                 list == ScopeItems(raw_items, CurrentModule)
                 list2 == ScopeItems(raw_items', CurrentModule)
             IN  /\ Len(raw_items'.imports) = old + n
                 /\ IsPrefix(raw_items.imports, raw_items'.imports)
                 /\ Len(list2) = Len(list) + n
                 /\ IsPrefix(list, list2)
                 /\ \A k \in 1..n :
                       /\ list2[Len(list) + k].kind = <<"Import", old + k - 1>>
                       /\ raw_items'.imports[old + k] =
                             [path |-> item'.expansion[k].path,
                              alias |-> item'.expansion[k].alias,
                              is_glob |-> item'.expansion[k].is_glob,
                              is_prelude |-> HasKey(item', "prelude_import"),
                              is_extern_crate |-> FALSE,
                              is_macro_use |-> FALSE,
                              visibility |-> IF item'.vis = PubVis THEN "Public"
                                                                   ELSE "Private"]
                 /\ OnlyTouches(CurrentModule, "imports")
                 /\ n = 0 => raw_items' = raw_items]_vars

\* #[prelude_import] pub use a::{c as d, e::*};
UseFlattenedWitness ==
    /\ item.kind = "UseItem"
    /\ Len(item.expansion) = 2
    /\ Len(raw_items.imports) = 2
    /\ raw_items.imports[1].alias = Some(<<"Alias", AsName("d")>>)
    /\ raw_items.imports[2].is_glob
    /\ raw_items.imports[2].is_prelude
    /\ raw_items.imports[2].visibility = "Public"
    /\ Len(ScopeItems(raw_items, CurrentModule)) = 2

(***************************************************************************)
(* C5  Extern-crate lowering.  An extern-crate statement with a name       *)
(* reference yields one import record and one import tag in the current    *)
(* scope: is_extern_crate, not is_glob, not is_prelude, alias absent /     *)
(* underscore / the alias name, and is_macro_use iff the statement has a   *)
(* bare #[macro_use] attribute, one without an argument token tree (with   *)
(* #[macro_use(..)] alone is_macro_use is false).  Without a name          *)
(* reference it yields nothing.                                            *)
(***************************************************************************)
\* the statement has an attribute #[key] without arguments
HasBareAttr(it, key) ==
    \E i \in 1..Len(it.attrs) : it.attrs[i] = [key |-> key, input |-> <<>>]

\* What an extern-crate step does, but for the value of is_macro_use.
ExternCrateStep(macro_use) ==
    JustRead("ExternCrateItem")
       => IF item'.name_ref = None
            THEN raw_items' = raw_items /\ stack' = stack /\ ~panicked'
            ELSE LET old == Len(raw_items.imports)
                     list == ScopeItems(raw_items, CurrentModule)
                     list2 == ScopeItems(raw_items', CurrentModule)
                     data == Last(raw_items'.imports)
                 IN  /\ Len(raw_items'.imports) = old + 1
                     /\ IsPrefix(raw_items.imports, raw_items'.imports)
                     /\ Len(list2) = Len(list) + 1
                     /\ IsPrefix(list, list2)
                     /\ Last(list2).kind = <<"Import", old>>
                     /\ data.is_extern_crate
                     /\ ~data.is_glob
                     /\ ~data.is_prelude
                     /\ data.is_macro_use = macro_use
                     /\ data.alias =
                           (CASE item'.alias = None -> None
                              [] item'.alias = Some(None) -> Some(<<"Underscore">>)
                              [] OTHER -> Some(<<"Alias",
                                                 [text |-> item'.alias[1][1]]>>))
                     /\ OnlyTouches(CurrentModule, "imports")

ExternCrateLowered == [][ExternCrateStep(HasBareAttr(item', "macro_use"))]_vars

\* C5 as stated: is_macro_use iff the statement carries the macro_use
\* attribute, in whatever form.
ExternCrateLoweredAnyForm == [][ExternCrateStep(HasKey(item', "macro_use"))]_vars

\* #[macro_use] extern crate foo as _; #[macro_use(m)] extern crate foo;
ExternCrateLoweredWitness ==
    /\ item.kind = "ExternCrateItem"
    /\ item.attrs = <<WithTt("macro_use", <<Ident(<<"m">>)>>)>>
    /\ Len(raw_items.imports) = 2
    /\ raw_items.imports[1].alias = Some(<<"Underscore">>)
    /\ raw_items.imports[1].is_macro_use
    /\ raw_items.imports[2].alias = None
    /\ ~raw_items.imports[2].is_macro_use
    /\ \A k \in 1..2 : raw_items.imports[k].is_extern_crate
    /\ Len(raw_items.items) = 2

(***************************************************************************)
(* C6  No-fail lowering.  The collector never reaches unreachable!():      *)
(* every scope handle that is or will be passed as current_module is a     *)
(* Definition; and lowering reaches its end.                               *)
(***************************************************************************)
ScopesAreDefinitions ==
    /\ ~panicked
    /\ pc # "aborted"
    /\ \A k \in 1..Len(stack) :
          /\ stack[k].item < Len(raw_items.modules)
          /\ At(raw_items.modules, stack[k].item).variant = "Definition"
          /\ stack[k].current_module =
                (IF k = 1 THEN None ELSE Some(stack[k - 1].item))

NoFailLowering == []ScopesAreDefinitions /\ <>(pc = "done")

\* lowering ended after a declaration was pushed into a module definition
NoFailLoweringWitness ==
    /\ pc = "done"
    /\ \E i \in 1..Len(raw_items.modules) :
          /\ raw_items.modules[i].variant = "Definition"
          /\ \E p \in 1..Len(raw_items.modules[i].items) :
                /\ raw_items.modules[i].items[p].kind[1] = "Module"
                /\ At(raw_items.modules, raw_items.modules[i].items[p].kind[2]).variant
                      = "Declaration"

(***************************************************************************)
(* C7  Extern blocks introduce no scope.  Reading an extern block          *)
(* allocates no module and pushes no tag for the block; each named         *)
(* function or static in it allocates one definition record (Function or   *)
(* Static) and appends its tag to the scope that contains the block, in    *)
(* the block's order; unnamed items and a missing item list add nothing.   *)
(***************************************************************************)
ExternBlockNoScope ==
    [][JustRead("ExternBlock")
          => IF item'.extern_item_list = None
               THEN raw_items' = raw_items /\ stack' = stack /\ ~panicked'
               ELSE LET body == Unwrap(item'.extern_item_list)
                        named == SelectSeq([k \in 1..Len(body) |-> k],
                                           LAMBDA k : IsSome(body[k].name))
                        n == Len(named)
                        old == Len(raw_items.defs)
                        list == ScopeItems(raw_items, CurrentModule)
                        list2 == ScopeItems(raw_items', CurrentModule)
                    IN  /\ Len(raw_items'.defs) = old + n
                        /\ IsPrefix(raw_items.defs, raw_items'.defs)
                        /\ Len(list2) = Len(list) + n
                        /\ IsPrefix(list, list2)
                        /\ \A k \in 1..n :
                              /\ list2[Len(list) + k].kind = <<"Def", old + k - 1>>
                              /\ raw_items'.defs[old + k].name.text
                                    = Unwrap(body[named[k]].name)
                              /\ raw_items'.defs[old + k].kind =
                                    <<IF body[named[k]].kind = "FnDef"
                                        THEN "Function" ELSE "Static",
                                      nodes + named[k]>>
                        /\ OnlyTouches(CurrentModule, "defs")]_vars

\* mod m { extern { static <missing name>; fn f(); } }: one Function definition,
\* tagged in the list of m
ExternBlockNoScopeWitness ==
    /\ item.kind = "ExternBlock"
    /\ IsSome(item.extern_item_list)
    /\ Len(Unwrap(item.extern_item_list)) = 2
    /\ Len(stack) = 1
    /\ Len(raw_items.modules) = 1
    /\ Len(raw_items.defs) = 1
    /\ raw_items.defs[1].kind[1] = "Function"
    /\ raw_items.items = <<>>
    /\ Len(raw_items.modules[1].items) = 1
    /\ raw_items.modules[1].items[1].kind = <<"Def", 0>>

(***************************************************************************)
(* C8  Module scope freeze.  A module record never changes its variant; an *)
(* item list is only ever extended at its end; a Definition's list is      *)
(* extended only while the module's body is being traversed, and never     *)
(* again once the module's own tag has been appended.                      *)
(***************************************************************************)
ModuleScopeFreeze ==
    [][/\ IsPrefix(raw_items.items, raw_items'.items)
       /\ Len(raw_items'.modules) >= Len(raw_items.modules)
       /\ \A i \in 0..(Len(raw_items.modules) - 1) :
             LET m == At(raw_items.modules, i)
                 m2 == At(raw_items'.modules, i)
             IN  /\ m2.variant = m.variant
                 /\ m.variant = "Definition" => IsPrefix(m.items, m2.items)
                 /\ (i \notin OpenModules(stack) \/ i \notin OpenModules(stack'))
                       => m2 = m]_vars

\* mod m { f } f: m is closed with one item, and the enclosing list went on
ModuleScopeFreezeWitness ==
    /\ stack = <<>>
    /\ Len(raw_items.modules) = 1
    /\ raw_items.modules[1].variant = "Definition"
    /\ Len(raw_items.modules[1].items) = 1
    /\ Len(raw_items.items) = 2
    /\ raw_items.items[1].kind = <<"Module", 0>>

(***************************************************************************)
(* C9  Module dispatch and ordering.  A named module with a semicolon      *)
(* becomes a Declaration tagged in the current scope, without recursion,   *)
(* item list or not.  A named module with an item list and no semicolon    *)
(* becomes a Definition allocated with an empty list before its body is    *)
(* read, so its index is below that of every nested module; its tag is     *)
(* appended to the enclosing scope only when its body has been read, and   *)
(* the tags of its items go to its own list.                               *)
(***************************************************************************)
ModuleStep ==
    /\ (JustRead("Module") /\ IsSome(item'.name) /\ item'.semi)
          => LET list == ScopeItems(raw_items, CurrentModule)
                 list2 == ScopeItems(raw_items', CurrentModule)
             IN  /\ Len(raw_items'.modules) = Len(raw_items.modules) + 1
                 /\ Last(raw_items'.modules).variant = "Declaration"
                 /\ list2 = Append(list, RawItem([entries |-> item'.attrs],
                                                 <<"Module", Len(raw_items.modules)>>,
                                                 nodes))
                 /\ stack' = stack
    /\ (JustRead("Module") /\ IsSome(item'.name) /\ ~item'.semi /\ item'.item_list)
          => /\ Len(raw_items'.modules) = Len(raw_items.modules) + 1
             /\ Last(raw_items'.modules).variant = "Definition"
             /\ Last(raw_items'.modules).items = <<>>
             /\ IsPrefix(raw_items.modules, raw_items'.modules)
             /\ raw_items'.items = raw_items.items
             /\ Len(stack') = Len(stack) + 1
             /\ Last(stack').item = Len(raw_items.modules)
             /\ Last(stack').current_module = CurrentModule
    \* the items of a body are tagged in the module's own list
    /\ (nodes' # nodes /\ stack # <<>>)
          => /\ raw_items'.items = raw_items.items
             /\ \A i \in 0..(Len(raw_items.modules) - 1) :
                   i # Last(stack).item
                     => At(raw_items'.modules, i) = At(raw_items.modules, i)
    \* the end of the body: the module's tag goes to the enclosing scope
    /\ Len(stack') < Len(stack)
          => LET frame == Last(stack)
                 outer == IF Len(stack) = 1 THEN None
                          ELSE Some(stack[Len(stack) - 1].item)
             IN  /\ stack' = SubSeq(stack, 1, Len(stack) - 1)
                 /\ ScopeItems(raw_items', outer) =
                       Append(ScopeItems(raw_items, outer),
                              RawItem(frame.attrs, <<"Module", frame.item>>, frame.node))
                 /\ At(raw_items'.modules, frame.item) = At(raw_items.modules, frame.item)

NestedModulesFollow ==
    /\ \A k \in 1..(Len(stack) - 1) : stack[k].item < stack[k + 1].item
    /\ \A scope \in Scopes(raw_items) :
          \A p \in 1..Len(ScopeItems(raw_items, scope)) :
              LET kind == ScopeItems(raw_items, scope)[p].kind
              IN  kind[1] = "Module"
                    => /\ kind[2] \notin OpenModules(stack)
                       /\ scope # None => Unwrap(scope) < kind[2]

ModuleDispatchOrdering == [][ModuleStep]_vars /\ []NestedModulesFollow

\* mod m { mod m { } } with both bodies read
ModuleDispatchOrderingWitness ==
    /\ stack = <<>>
    /\ Len(raw_items.modules) = 2
    /\ raw_items.modules[1].variant = "Definition"
    /\ raw_items.modules[2].variant = "Definition"
    /\ Len(raw_items.modules[1].items) = 1
    /\ raw_items.modules[1].items[1].kind = <<"Module", 1>>
    /\ Len(raw_items.items) = 1
    /\ raw_items.items[1].kind = <<"Module", 0>>

(***************************************************************************)
(* C10  Tags and records correspond one to one.  Every tag's index is in   *)
(* range for the store of its kind; every record is referenced by exactly  *)
(* one tag over all item lists, except the module Definitions whose bodies *)
(* are being traversed, which are not referenced yet; in the finished set  *)
(* there are as many tags as records.                                      *)
(***************************************************************************)
StoreOf(ri, tagKind) ==
    CASE tagKind = "Module" -> ri.modules
      [] tagKind = "Import" -> ri.imports
      [] tagKind = "Def" -> ri.defs
      [] tagKind = "Macro" -> ri.macros
      [] tagKind = "Impl" -> ri.impls

TagKinds == {"Module", "Import", "Def", "Macro", "Impl"}

\* the places <<scope, position>> of the tags that refer to record idx of a store
References(ri, tagKind, idx) ==
    {sp \in UNION {{<<scope, p>> : p \in 1..Len(ScopeItems(ri, scope))} :
                       scope \in Scopes(ri)} :
        ScopeItems(ri, sp[1])[sp[2]].kind = <<tagKind, idx>>}

RECURSIVE SumLen(_)
SumLen(seqs) == IF seqs = <<>> THEN 0 ELSE Len(Head(seqs)) + SumLen(Tail(seqs))

TagCount(ri) ==
    Len(ri.items)
      + SumLen([i \in 1..Len(ri.modules) |->
                   IF ri.modules[i].variant = "Definition"
                     THEN ri.modules[i].items ELSE <<>>])

RecordCount(ri) ==
    Len(ri.modules) + Len(ri.imports) + Len(ri.defs) + Len(ri.macros) + Len(ri.impls)

TagsMatchRecords ==
    /\ \A scope \in Scopes(raw_items) :
          \A p \in 1..Len(ScopeItems(raw_items, scope)) :
              LET kind == ScopeItems(raw_items, scope)[p].kind
              IN  /\ kind[1] \in TagKinds
                  /\ kind[2] \in 0..(Len(StoreOf(raw_items, kind[1])) - 1)
    /\ \A tagKind \in TagKinds :
          \A idx \in 0..(Len(StoreOf(raw_items, tagKind)) - 1) :
              Cardinality(References(raw_items, tagKind, idx)) =
                  IF tagKind = "Module" /\ idx \in OpenModules(stack) THEN 0 ELSE 1
    /\ pc = "done" => stack = <<>> /\ TagCount(raw_items) = RecordCount(raw_items)

\* a finished set with records in three stores, one of them in a nested list
TagsMatchRecordsWitness ==
    /\ pc = "done"
    /\ family = "mixed"
    /\ RecordCount(raw_items) = 4
    /\ Len(raw_items.imports) = 2
    /\ Len(raw_items.modules) = 1
    /\ raw_items.modules[1].variant = "Definition"
    /\ Len(raw_items.modules[1].items) >= 2

====
